---- MODULE Spec2Model ----
(***************************************************************************)
(* Model of the histogram monitor of mister_peeper.cpp (the second         *)
(* translation unit, lines 145-399): a process that maps the scaler        *)
(* window of /dev/mem, reads the scaler header once, waits for the byte    *)
(* at offset 5 to change, and then makes one sparse sampling pass over     *)
(* the frame buffer, folding every sample into a 64-bit hash and into an   *)
(* epoch-stamped 5-6-5 histogram, and prints one status record.            *)
(*                                                                         *)
(* The mapped memory is written by the scaler hardware concurrently; the   *)
(* hardware, the clock and the signals are the environment of the model.   *)
(***************************************************************************)
EXTENDS Integers, Sequences, FiniteSets, TLC

(***************************************************************************)
(* Program constants.                                                      *)
(***************************************************************************)
kStep    == 16
kJitterX == 7
kJitterY == 11
MAP_LEN  == 25165824
RGB16    == 0
RGB24    == 1
RGBA32   == 2
HeaderSize == 20

(***************************************************************************)
(* Bounds of the model.                                                    *)
(***************************************************************************)
MaxFrames == 3
MaxClock  == 1
MaxHwWrites == 1

(***************************************************************************)
(* Fixed-width arithmetic.                                                 *)
(***************************************************************************)
RECURSIVE BitXor(_, _)
BitXor(a, b) ==
    IF a = 0 THEN b
    ELSE IF b = 0 THEN a
    ELSE (((a % 2) + (b % 2)) % 2) + 2 * BitXor(a \div 2, b \div 2)

\* be16: swap the two bytes of a 16-bit value.
be16(v) == ((v \div 256) + (v * 256)) % 65536

\* triple_buffered: bit 4 of the byte-swapped attributes field.
triple_buffered(attr_be) == ((be16(attr_be) \div 16) % 2) # 0

\* fb_off: offset of buffer idx in the small or large buffer layout.
fb_off(large, idx) ==
    IF idx = 0 THEN 0
    ELSE IF large THEN (IF idx = 1 THEN 8388608 ELSE 16777216)
    ELSE (IF idx = 1 THEN 2097152 ELSE 4194304)

(***************************************************************************)
(* 64-bit values are sequences of eight bytes, least significant first.    *)
(***************************************************************************)
HashSeed == <<37, 35, 34, 132, 228, 156, 242, 203>>   \* 0xcbf29ce484222325
HashMul  == <<205, 140, 85, 237, 215, 175, 81, 255>>  \* 0xff51afd7ed558ccd
Zero64   == <<0, 0, 0, 0, 0, 0, 0, 0>>

RECURSIVE MulColumn(_, _, _, _)
\* sum of a[i+1] * b[k-i+1] for i in 0..i
MulColumn(a, b, k, i) ==
    IF i < 0 THEN 0 ELSE a[i + 1] * b[k - i + 1] + MulColumn(a, b, k, i - 1)

RECURSIVE MulLimbs(_, _, _, _)
MulLimbs(a, b, k, carry) ==
    IF k = 8 THEN <<>>
    ELSE LET s == MulColumn(a, b, k, k) + carry
         IN  <<s % 256>> \o MulLimbs(a, b, k + 1, s \div 256)

\* product modulo 2^64
Mul64(a, b) == MulLimbs(a, b, 0, 0)

\* hash_rgb64: h ^= r<<16 ^ g<<8 ^ b;  h *= 0xff51afd7ed558ccd;  h ^= h >> 32
hash_rgb64(h, r, g, b) ==
    LET h1 == [h EXCEPT ![1] = BitXor(h[1], b),
                        ![2] = BitXor(h[2], g),
                        ![3] = BitXor(h[3], r)]
        h2 == Mul64(h1, HashMul)
    IN  [i \in 1..8 |-> IF i <= 4 THEN BitXor(h2[i], h2[i + 4]) ELSE h2[i]]

(***************************************************************************)
(* Quantisation of a sample to a 5-6-5 key and the decode of a key.        *)
(***************************************************************************)
\* key = ((r>>3)<<11) | ((g>>2)<<5) | (b>>3)
KeyOf(r, g, b) == (r \div 8) * 2048 + (g \div 4) * 32 + (b \div 8)

\* an expansion by left shift alone
ExpandByShift5(v) == (v * 8) % 256

\* (uint8_t)(((key>>11)&0x1F)*255/31), ((key>>5)&0x3F)*255/63, (key&0x1F)*255/31
Expand5(v) == ((v * 255) \div 31) % 256
Expand6(v) == ((v * 255) \div 63) % 256
DecodeKey(key) ==
    <<Expand5((key \div 2048) % 32), Expand6((key \div 32) % 64), Expand5(key % 32)>>

\* the 16-bit pixel of the bytes p[0], p[1]: low byte first, high byte first
Pixel16LE(p0, p1) == p0 + p1 * 256
Pixel16BE(p0, p1) == p0 * 256 + p1

\* the three fields of a 5-6-5 value, most significant first
Field565(v) == <<(v \div 2048) % 32, (v \div 32) % 64, v % 32>>

\* the pixel loaders: <<r, g, b>> of the pixel at p
load_rgb565_LE(p0, p1) ==
    LET f == Field565(Pixel16LE(p0, p1)) IN <<Expand5(f[1]), Expand6(f[2]), Expand5(f[3])>>
load_rgb565_BE(p0, p1) ==
    LET f == Field565(Pixel16BE(p0, p1)) IN <<Expand5(f[1]), Expand6(f[2]), Expand5(f[3])>>
load_bgr565_LE(p0, p1) ==
    LET f == Field565(Pixel16LE(p0, p1)) IN <<Expand5(f[3]), Expand6(f[2]), Expand5(f[1])>>
load_bgr565_BE(p0, p1) ==
    LET f == Field565(Pixel16BE(p0, p1)) IN <<Expand5(f[3]), Expand6(f[2]), Expand5(f[1])>>

(***************************************************************************)
(* State.                                                                  *)
(*   hdr, fb        the mapped window as the hardware last wrote it        *)
(*   clock          CLOCK_MONOTONIC                                        *)
(*   the rest       the variables of main, the histogram tables, the       *)
(*                  number of records printed, the last two of them, and   *)
(*                  the samples of the pass and their coordinates, one     *)
(*                  sequence per row of the grid, the                      *)
(*                  number of writes of the byte at offset 5, counted up   *)
(*                  to one more than the passes the model follows, and     *)
(*                  the number of changes of that byte the wait loop has   *)
(*                  found (detected)                                       *)
(***************************************************************************)
VARIABLES hdr, fb, clock, g_run,
          pc, fd_open, mapped, exit_code, sys,
          h, header_len, width, height, line, fmt,
          s0, last_hash, first, start_ns, last_change_ns, frame_no,
          phase_x, phase_y, x, y, hsh, mode_key, mode_count,
          g_epoch, g_stamp, g_count,
          out, n_out, samples, pass_env, dirty, sig_out, hw_writes,
          hw_ticks, visited, detected

envVars  == <<hdr, fb, clock, g_run>>
procVars == <<pc, fd_open, mapped, exit_code, sys>>
hdrVars  == <<h, header_len, width, height, line, fmt>>
loopVars == <<s0, last_hash, first, start_ns, last_change_ns, frame_no>>
passVars == <<phase_x, phase_y, x, y, hsh, mode_key, mode_count>>
histVars == <<g_epoch, g_stamp, g_count>>
obsVars  == <<out, n_out, samples, pass_env, dirty, sig_out, hw_writes,
              hw_ticks, visited, detected>>
vars == <<envVars, procVars, hdrVars, loopVars, passVars, histVars, obsVars>>

(***************************************************************************)
(* The mapped window.  The header is the packed FbHeader at offset 0; the  *)
(* hardware writes its pixel stream behind its own header length, one      *)
(* pixel of fb.bpp bytes after the other, the colour changing every RunPx  *)
(* pixels and repeating after Len(fb.cols) runs.                           *)
(***************************************************************************)
MagicASCL == <<65, 83, 67, 76>>
MagicXXXX == <<88, 88, 88, 88>>
Red    == <<255, 0, 0>>
Orange == <<255, 165, 0>>
Colours == {Red, Orange}
RunPx == kStep

Lo(v) == v % 256
Hi(v) == v \div 256

\* byte a of the packed FbHeader
HdrByte(a) ==
    CASE a < 4  -> hdr.magic[a + 1]
      [] a = 4  -> hdr.ty
      [] a = 5  -> hdr.pixel_fmt
      [] a = 6  -> Lo(hdr.header_len_be)
      [] a = 7  -> Hi(hdr.header_len_be)
      [] a = 8  -> Lo(hdr.attributes_be)
      [] a = 9  -> Hi(hdr.attributes_be)
      [] a = 10 -> Lo(hdr.width_be)
      [] a = 11 -> Hi(hdr.width_be)
      [] a = 12 -> Lo(hdr.height_be)
      [] a = 13 -> Hi(hdr.height_be)
      [] a = 14 -> Lo(hdr.line_be)
      [] a = 15 -> Hi(hdr.line_be)
      [] a = 16 -> Lo(hdr.out_width_be)
      [] a = 17 -> Hi(hdr.out_width_be)
      [] a = 18 -> Lo(hdr.out_height_be)
      [] OTHER  -> Hi(hdr.out_height_be)

\* the bytes of one pixel of colour c as the hardware stores it
PixelBytes(c, bpp) ==
    CASE bpp = 3 -> c
      [] bpp = 4 -> c \o <<255>>
      [] OTHER   -> <<Lo(KeyOf(c[1], c[2], c[3])), Hi(KeyOf(c[1], c[2], c[3]))>>

\* the byte at offset a of the window
Mem(a) ==
    IF a < HeaderSize THEN HdrByte(a)
    ELSE LET rel == a - be16(hdr.header_len_be)
         IN  IF rel < 0 THEN 0
             ELSE LET px == rel \div fb.bpp
                      c  == fb.cols[((px \div RunPx) % Len(fb.cols)) + 1]
                  IN  PixelBytes(c, fb.bpp)[(rel % fb.bpp) + 1]

(***************************************************************************)
(* Helpers of the sampling pass.                                           *)
(***************************************************************************)
\* bytes per pixel the sampling loop of a format steps by
Bpp(f) == IF f = RGB24 THEN 3 ELSE 4

\* offset of pixel (xx, yy): pix + y*line + x*bpp, pix = base + header_len
SampleAddr(xx, yy) == header_len + yy * line + xx * Bpp(fmt)

\* the three reads p[0], p[1], p[2] stay inside the mapping
InWindow(a) == a >= 0 /\ a + 2 < MAP_LEN

\* the zero-initialised static tables, kept sparse
StampAt(stamp, k) == IF k \in DOMAIN stamp THEN stamp[k] ELSE 0
CountAt(count, k) == IF k \in DOMAIN count THEN count[k] ELSE 0
Put(f, k, v) == [i \in DOMAIN f \cup {k} |-> IF i = k THEN v ELSE f[i]]

\* the comparison that moves the running mode to the bin just incremented
ModeBeats(c, best) == c > best

\* one sample of key `key` tallied into T = [stamp, count, mode_key, mode_count]
HistSample(T, key, epoch) ==
    LET fresh == StampAt(T.stamp, key) # epoch
        c     == IF fresh THEN 1 ELSE (CountAt(T.count, key) + 1) % 65536
        take  == ~fresh /\ ModeBeats(c, T.mode_count)
        mc1   == IF take THEN c ELSE T.mode_count
        mk1   == IF take THEN key ELSE T.mode_key
    IN  [stamp      |-> Put(T.stamp, key, epoch),
         count      |-> Put(T.count, key, c),
         mode_count |-> IF mc1 = 0 THEN 1 ELSE mc1,
         mode_key   |-> IF mc1 = 0 THEN key ELSE mk1]

\* the loops have a sample to take at (xx, yy)
InGrid(xx, yy) == yy < height /\ xx < width

\* the position after (xx, yy) in the two nested loops, <<-1, -1>> at the end
NextPos(xx, yy) ==
    IF xx + kStep < width THEN <<xx + kStep, yy>>
    ELSE IF yy + kStep < height THEN <<phase_x, yy + kStep>>
    ELSE <<-1, -1>>

\* phase of frame n along an axis with jitter j
Phase(n, j) == (n * j) % kStep

\* a check of the magic alone
ValidHeaderMagicOnly(hd) == hd.magic = MagicASCL

\* the two checks of the struct copied from the window by memcpy
ValidHeader(hd) == hd.magic = MagicASCL /\ hd.ty = 1

(***************************************************************************)
(* Initial states: main is about to open /dev/mem, the signal handlers are *)
(* installed, the hardware has written some header and some frame.         *)
(***************************************************************************)
MkHdr(magic, ty, pf, hl, w, ht, ln) ==
    [magic |-> magic, ty |-> ty, pixel_fmt |-> pf,
     header_len_be |-> be16(hl), attributes_be |-> 0,
     width_be |-> be16(w), height_be |-> be16(ht), line_be |-> be16(ln),
     out_width_be |-> 0, out_height_be |-> 0]

NoHeader == MkHdr(<<0, 0, 0, 0>>, 0, 0, 0, 0, 0, 0)

InitWith(Headers, Frames) ==
    /\ hdr \in Headers
    /\ fb \in Frames
    /\ clock = 0
    /\ g_run = TRUE
    /\ pc = "open" /\ fd_open = FALSE /\ mapped = FALSE /\ exit_code = -1
    /\ sys = [open |-> 0, mmap |-> 0, munmap |-> 0, close |-> 0, failed |-> "none"]
    /\ h = NoHeader
    /\ header_len = 0 /\ width = 0 /\ height = 0 /\ line = 0 /\ fmt = 0
    /\ s0 = 0 /\ last_hash = Zero64 /\ first = TRUE
    /\ start_ns = 0 /\ last_change_ns = 0 /\ frame_no = 0
    /\ phase_x = 0 /\ phase_y = 0 /\ x = 0 /\ y = 0
    /\ hsh = Zero64 /\ mode_key = 0 /\ mode_count = 0
    /\ g_epoch = 1 /\ g_stamp = <<>> /\ g_count = <<>>
    /\ out = <<>> /\ n_out = 0 /\ samples = <<>> /\ pass_env = <<>> /\ dirty = FALSE
    /\ sig_out = -1 /\ hw_writes = 0 /\ hw_ticks = 0 /\ visited = <<>> /\ detected = 0

(***************************************************************************)
(* main, lines 288-399.                                                    *)
(***************************************************************************)
\* a return that drops the status
ExitDroppingCode(code) == pc' = "exited" /\ exit_code' = 0

\* return code
Exit(code) == pc' = "exited" /\ exit_code' = code

\* a close(fd) left out
CloseFdSkipped == fd_open' = fd_open

\* munmap((void*)base, MAP_LEN) and close(fd)
Unmap == mapped' = FALSE
CloseFd == fd_open' = FALSE

\* the status main returns when /dev/mem cannot be opened or mapped
AccessErrorCode == 1

\* 292-293: open("/dev/mem"); the environment lets it succeed or fail
Open ==
    /\ pc = "open"
    /\ \E ok \in BOOLEAN :
         IF ok THEN /\ pc' = "mmap" /\ fd_open' = TRUE /\ exit_code' = exit_code
                    /\ sys' = [sys EXCEPT !.open = @ + 1]
               ELSE /\ Exit(AccessErrorCode) /\ fd_open' = fd_open
                    /\ sys' = [sys EXCEPT !.open = @ + 1, !.failed = "open"]
    /\ UNCHANGED <<mapped, envVars, hdrVars, loopVars, passVars, histVars, obsVars>>

\* 294-296: mmap of the window
Mmap ==
    /\ pc = "mmap"
    /\ \E ok \in BOOLEAN :
         IF ok
         THEN /\ pc' = "read_header" /\ mapped' = TRUE
              /\ sys' = [sys EXCEPT !.mmap = @ + 1]
              /\ UNCHANGED <<fd_open, exit_code>>
         ELSE /\ Exit(AccessErrorCode) /\ CloseFd
              /\ sys' = [sys EXCEPT !.mmap = @ + 1, !.close = @ + 1, !.failed = "mmap"]
              /\ UNCHANGED mapped
    /\ UNCHANGED <<envVars, hdrVars, loopVars, passVars, histVars, obsVars>>

\* the exit status of the two header checks at lines 300-307
FormatErrorCode(hd) == IF ValidHeader(hd) THEN 0 ELSE 3

\* 298-325: the header is copied and checked, the locals are set
ReadHeader ==
    /\ pc = "read_header"
    /\ h' = hdr
    /\ IF FormatErrorCode(hdr) # 0
       THEN /\ Exit(FormatErrorCode(hdr)) /\ Unmap /\ CloseFd
            /\ sys' = [sys EXCEPT !.munmap = @ + 1, !.close = @ + 1]
            /\ UNCHANGED <<header_len, width, height, line, fmt, loopVars>>
       ELSE /\ header_len' = be16(hdr.header_len_be)
            /\ width'  = be16(hdr.width_be)
            /\ height' = be16(hdr.height_be)
            /\ line'   = be16(hdr.line_be)
            /\ fmt'    = hdr.pixel_fmt
            /\ last_hash' = Zero64 /\ first' = TRUE
            /\ start_ns' = clock /\ last_change_ns' = clock
            /\ frame_no' = 0 /\ s0' = s0
            /\ pc' = "loop_top"
            /\ UNCHANGED <<mapped, fd_open, exit_code, sys>>
    /\ UNCHANGED <<envVars, passVars, histVars, obsVars>>

\* attr_ptrs[i]: base + fb_off(false, i) + 5
AttrPtr(i) == fb_off(FALSE, i) + 5

\* 327-329: the loop condition and the read of s0
LoopTop ==
    /\ pc = "loop_top"
    /\ IF g_run THEN frame_no < MaxFrames /\ pc' = "wait" /\ s0' = Mem(AttrPtr(0))
                ELSE pc' = "cleanup" /\ s0' = s0
    /\ UNCHANGED <<fd_open, mapped, exit_code, sys, envVars, hdrVars, last_hash,
                   first, start_ns, last_change_ns, frame_no, passVars, histVars,
                   obsVars>>

\* 330-334: one turn of the wait loop; an unchanged byte means usleep
Wait ==
    /\ pc = "wait"
    /\ pc' = IF g_run /\ Mem(AttrPtr(0)) = s0 THEN "wait" ELSE "tick"
    /\ detected' = IF g_run /\ Mem(AttrPtr(0)) # s0 THEN detected + 1 ELSE detected
    /\ UNCHANGED <<fd_open, mapped, exit_code, sys, envVars, hdrVars, loopVars,
                   passVars, histVars, out, n_out, samples, pass_env, dirty, sig_out,
                   hw_writes, hw_ticks, visited>>

\* 335-350: leave on a signal, else set up the pass
StartPass ==
    /\ pc = "tick"
    /\ IF ~g_run
       THEN /\ pc' = "cleanup"
            /\ UNCHANGED <<frame_no, passVars, g_epoch, samples, pass_env, dirty,
                           visited>>
       ELSE /\ phase_x' = Phase(frame_no, kJitterX)
            /\ phase_y' = Phase(frame_no, kJitterY)
            /\ frame_no' = frame_no + 1
            /\ hsh' = HashSeed
            /\ g_epoch' = g_epoch + 1    \* uint32_t: no wrap within MaxFrames passes
            /\ mode_key' = 0 /\ mode_count' = 0
            /\ x' = phase_x' /\ y' = phase_y'
            /\ samples' = <<>> /\ visited' = <<>>
            /\ pass_env' = <<hdr, fb>> /\ dirty' = FALSE
            /\ pc' = IF fmt \in {RGB24, RGBA32}
                        /\ phase_y' < height /\ phase_x' < width
                     THEN "sample" ELSE "report"
    /\ UNCHANGED <<fd_open, mapped, exit_code, sys, envVars, hdrVars, s0, last_hash,
                   first, start_ns, last_change_ns, g_stamp, g_count, out, n_out, sig_out,
                   hw_writes, hw_ticks, detected>>

\* the log of a pass, one sequence per row, after entry e; a row begins when
\* the inner loop starts
Logged(rows, begins, e) ==
    IF begins THEN Append(rows, <<e>>)
    ELSE [rows EXCEPT ![Len(rows)] = Append(@, e)]

\* 357-362 / 370-375: the body of the inner loop for the colour read
TakeSample(c) ==
    LET key == KeyOf(c[1], c[2], c[3])
        T   == HistSample([stamp |-> g_stamp, count |-> g_count,
                           mode_key |-> mode_key, mode_count |-> mode_count],
                          key, g_epoch)
        nxt == NextPos(x, y)
    IN  /\ hsh' = hash_rgb64(hsh, c[1], c[2], c[3])
        /\ g_stamp' = T.stamp /\ g_count' = T.count
        /\ mode_key' = T.mode_key /\ mode_count' = T.mode_count
        /\ samples' = Logged(samples, x = phase_x, c)
        /\ visited' = Logged(visited, x = phase_x, <<x, y>>)
        /\ IF nxt = <<-1, -1>>
           THEN pc' = "report" /\ x' = x /\ y' = y
           ELSE pc' = "sample" /\ x' = nxt[1] /\ y' = nxt[2]
        /\ UNCHANGED <<fd_open, mapped, exit_code, sys>>

\* the process dies of SIGSEGV; the kernel takes its mapping and descriptor
Crash ==
    /\ pc' = "crashed" /\ exit_code' = 139 /\ mapped' = FALSE /\ fd_open' = FALSE
    /\ UNCHANGED <<sys, x, y, hsh, mode_key, mode_count, g_stamp, g_count, samples,
                   visited>>

\* 353-363 / 366-377: one iteration of the inner loop.  A read outside the
\* mapping is undefined: it faults, or it returns whatever lies behind it.
Sample ==
    /\ pc = "sample"
    /\ LET a == SampleAddr(x, y)
       IN  IF InWindow(a)
           THEN TakeSample(<<Mem(a), Mem(a + 1), Mem(a + 2)>>)
           ELSE Crash \/ \E c \in Colours : TakeSample(c)
    /\ UNCHANGED <<envVars, hdrVars, loopVars, phase_x, phase_y, g_epoch,
                   out, n_out, pass_env, dirty, sig_out, hw_writes, hw_ticks, detected>>

\* a compare that takes every pass for a change
ReportAlwaysChanged ==
    /\ pc = "report"
    /\ LET t_ns    == clock
           changed == TRUE
           lc      == IF changed THEN t_ns ELSE last_change_ns
       IN  /\ last_hash' = (IF changed THEN hsh ELSE last_hash)
           /\ last_change_ns' = lc
           /\ first' = FALSE
           /\ n_out' = n_out + 1
           /\ out' = Append(IF out = <<>> THEN out ELSE <<out[Len(out)]>>,
                  [time |-> t_ns - start_ns, unchanged |-> t_ns - lc,
                   rgb |-> DecodeKey(mode_key),
                   hsh |-> hsh, stored |-> last_hash',
                   mode_key |-> mode_key, mode_count |-> mode_count,
                   frame |-> frame_no - 1,
                   used |-> <<header_len, width, height, line, fmt>>,
                   samples |-> samples, env |-> pass_env,
                   stable |-> ~dirty /\ pass_env = <<hdr, fb>>,
                   torn |-> fb # pass_env[2],
                   after_torn |-> out # <<>> /\ out[Len(out)].torn])
    /\ pc' = "loop_top"
    /\ UNCHANGED <<fd_open, mapped, exit_code, sys, envVars, hdrVars, s0, start_ns,
                   frame_no, passVars, histVars, samples, pass_env, dirty, sig_out,
                   hw_writes, hw_ticks, detected, visited>>

\* 380-395: the fingerprint compare and the status record
Report ==
    /\ pc = "report"
    /\ LET t_ns    == clock
           changed == first \/ hsh # last_hash
           lc      == IF changed THEN t_ns ELSE last_change_ns
       IN  /\ last_hash' = (IF changed THEN hsh ELSE last_hash)
           /\ last_change_ns' = lc
           /\ first' = FALSE
           /\ n_out' = n_out + 1
           /\ out' = Append(IF out = <<>> THEN out ELSE <<out[Len(out)]>>,
                  [time |-> t_ns - start_ns, unchanged |-> t_ns - lc,
                   rgb |-> DecodeKey(mode_key),
                   hsh |-> hsh, stored |-> last_hash',
                   mode_key |-> mode_key, mode_count |-> mode_count,
                   frame |-> frame_no - 1,
                   used |-> <<header_len, width, height, line, fmt>>,
                   samples |-> samples, env |-> pass_env,
                   stable |-> ~dirty /\ pass_env = <<hdr, fb>>,
                   torn |-> fb # pass_env[2],
                   after_torn |-> out # <<>> /\ out[Len(out)].torn])
    /\ pc' = "loop_top"
    /\ UNCHANGED <<fd_open, mapped, exit_code, sys, envVars, hdrVars, s0, start_ns,
                   frame_no, passVars, histVars, samples, pass_env, dirty, sig_out,
                   hw_writes, hw_ticks, detected, visited>>

\* 398: munmap, close, return 0
Cleanup ==
    /\ pc = "cleanup"
    /\ Exit(0) /\ Unmap /\ CloseFd
    /\ sys' = [sys EXCEPT !.munmap = @ + 1, !.close = @ + 1]
    /\ UNCHANGED <<envVars, hdrVars, loopVars, passVars, histVars, obsVars>>

(***************************************************************************)
(* The environment: the scaler hardware, the clock and the signals.        *)
(* main reads byte 5 in LoopTop and Wait only, the frame in Sample only,   *)
(* the clock in Report only once the loop runs, and the rest of the header *)
(* never again after ReadHeader.  A write of the hardware is therefore     *)
(* placed right before the step that could read it: writes at other        *)
(* places are read exactly as these are.  A write of byte 5 while a pass   *)
(* is in progress is placed before the record of the pass is printed.  A   *)
(* signal arrives at any point of the loop; main reads g_run in LoopTop,   *)
(* Wait and StartPass only, so a signal that arrives during a pass is      *)
(* placed before its first sample or before its record.  Once the signal   *)
(* has arrived main reads the window in the pass in progress only: the     *)
(* condition of the wait loop tests g_run first.                           *)
(***************************************************************************)

FmtBytes == {RGB16, RGB24, RGBA32}

\* bytes per pixel of the stream the hardware writes for a format code
HwBpp(f) == CASE f = RGB16 -> 2 [] f = RGB24 -> 3 [] OTHER -> 4

\* width and height of the geometries the hardware switches between
Geoms == {<<32, 32>>, <<17, 17>>}

\* the frames: uniform ones and ones of two colours
Patterns == {<<Red, Red, Red>>, <<Red, Orange, Orange>>}
Frames == [bpp : {2, 3, 4}, cols : Patterns]
Uniform(f) == \A j \in 1..Len(f.cols) : f.cols[j] = f.cols[1]

\* the value the hardware writes over v at offset 5: it alternates between
\* the codes of the two formats main samples
NextByte5(v) == IF v = RGB24 THEN RGBA32 ELSE RGB24

\* the hardware writes the byte at offset 5
HwTick ==
    /\ pc = "report" \/ (g_run /\ pc \in {"loop_top", "wait"})
    /\ hdr' = [hdr EXCEPT !.pixel_fmt = NextByte5(@)]
    /\ hw_ticks' = IF hw_ticks <= MaxFrames THEN hw_ticks + 1 ELSE hw_ticks
    /\ dirty' = (dirty \/ pc \in {"sample", "report"})
    /\ UNCHANGED <<fb, clock, g_run, procVars, hdrVars, loopVars, passVars,
                   histVars, out, n_out, samples, pass_env, sig_out, hw_writes,
                   visited, detected>>

\* the hardware switches to another geometry
HwReconfig ==
    /\ g_run /\ pc = "wait" /\ hw_writes < MaxHwWrites
    /\ hw_writes' = hw_writes + 1
    /\ \E g \in Geoms :
         /\ hdr' = [hdr EXCEPT !.width_be = be16(g[1]), !.height_be = be16(g[2]),
                               !.line_be = be16(g[1] * fb.bpp)]
         /\ hdr' # hdr
    /\ dirty' = (dirty \/ pc \in {"sample", "report"})
    /\ UNCHANGED <<fb, clock, g_run, procVars, hdrVars, loopVars, passVars,
                   histVars, out, n_out, samples, pass_env, sig_out, hw_ticks, detected,
                   visited>>

\* the hardware writes another frame
HwFrame ==
    /\ pc = "sample" \/ (g_run /\ pc = "wait")
    /\ hw_writes < MaxHwWrites
    /\ hw_writes' = hw_writes + 1
    /\ fb' \in {f \in Frames : f.bpp = fb.bpp} \ {fb}
    /\ dirty' = (dirty \/ pc \in {"sample", "report"})
    /\ UNCHANGED <<hdr, clock, g_run, procVars, hdrVars, loopVars, passVars,
                   histVars, out, n_out, samples, pass_env, sig_out, hw_ticks, detected,
                   visited>>

\* 214: on_sig, for SIGINT or SIGTERM
Signal ==
    /\ pc \in {"sample", "report", "loop_top", "wait", "tick"} /\ g_run
    /\ pc = "sample" => samples = <<>>
    /\ g_run' = FALSE
    /\ sig_out' = n_out
    /\ UNCHANGED <<hdr, fb, clock, procVars, hdrVars, loopVars, passVars,
                   histVars, out, n_out, samples, pass_env, dirty, hw_writes,
                   hw_ticks, detected, visited>>

\* time passes
Tick ==
    /\ pc = "report" /\ clock < MaxClock
    /\ clock' = clock + 1
    /\ UNCHANGED <<hdr, fb, g_run, procVars, hdrVars, loopVars, passVars,
                   histVars, obsVars>>

\* the geometry the hardware starts with
StartGeom == <<17, 17>>

\* the header length the hardware starts with: the pixels follow the header
StartHeaderLen == HeaderSize

\* the headers main may find: the stride is that of the declared format
StartHeaders ==
    {MkHdr(m, t, f, StartHeaderLen, g[1], g[2], g[1] * HwBpp(f)) :
        m \in {MagicASCL, MagicXXXX}, t \in {1, 2}, f \in FmtBytes, g \in {StartGeom}}

\* at the start the frame in memory is one of the format the header declares
Init == InitWith(StartHeaders, Frames) /\ fb.bpp = HwBpp(hdr.pixel_fmt)
Next == Open \/ Mmap \/ ReadHeader \/ LoopTop \/ Wait \/ StartPass \/ Sample
        \/ Report \/ Cleanup
        \/ HwTick \/ HwReconfig \/ HwFrame \/ Signal \/ Tick
Spec == Init /\ [][Next]_vars

(***************************************************************************)
(* The same program started on headers at the limits of the 16-bit fields. *)
(***************************************************************************)
\* width, height and stride of the large geometries
LargeGeoms == {<<17, 17, 65535>>, <<1, 401, 65535>>}

LargeHeaders ==
    {MkHdr(MagicASCL, 1, f, hl, g[1], g[2], g[3]) :
        f \in {RGB24, RGBA32}, hl \in {StartHeaderLen, 65535}, g \in LargeGeoms}

InitBounds ==
    /\ InitWith(LargeHeaders, Frames)
    /\ fb.bpp = HwBpp(hdr.pixel_fmt) /\ Uniform(fb)
SpecBounds == InitBounds /\ [][Next]_vars

(***************************************************************************)
(* The channel expansions on their own: every 16-bit value is decoded as a *)
(* winning key and loaded, as the two bytes of a pixel, by each loader.    *)
(***************************************************************************)
\* the keys and pixel values: all the values of a uint16_t
Values16 == 0..(2^16 - 1)

InitCodec ==
    /\ hdr = NoHeader /\ fb \in {f \in Frames : f.bpp = 2 /\ Uniform(f)}
    /\ clock = 0 /\ g_run = TRUE
    /\ pc = "codec" /\ fd_open = FALSE /\ mapped = FALSE /\ exit_code = -1
    /\ sys = [open |-> 0, mmap |-> 0, munmap |-> 0, close |-> 0, failed |-> "none"]
    /\ h = NoHeader
    /\ header_len = 0 /\ width = 0 /\ height = 0 /\ line = 0 /\ fmt = 0
    /\ s0 = 0 /\ last_hash = Zero64 /\ first = TRUE
    /\ start_ns = 0 /\ last_change_ns = 0 /\ frame_no = 0
    /\ phase_x = 0 /\ phase_y = 0 /\ x = 0 /\ y = 0
    /\ hsh = Zero64 /\ mode_key \in Values16 /\ mode_count = 0
    /\ g_epoch = 1 /\ g_stamp = <<>> /\ g_count = <<>>
    /\ out = <<>> /\ n_out = 0 /\ samples = <<>> /\ pass_env = <<>> /\ dirty = FALSE
    /\ sig_out = -1 /\ hw_writes = 0 /\ hw_ticks = 0 /\ visited = <<>> /\ detected = 0

\* 384-386 and 257-280: the decode of the key and the four loaders applied
\* to the bytes of the same value, low byte at p[0]
ApplyCodec ==
    /\ pc = "codec"
    /\ pc' = "codec_done"
    /\ LET p0 == Lo(mode_key)
           p1 == Hi(mode_key)
       IN  out' = <<[key |-> mode_key, rgb |-> DecodeKey(mode_key),
                     p |-> <<p0, p1>>,
                     rgb565_LE |-> load_rgb565_LE(p0, p1),
                     rgb565_BE |-> load_rgb565_BE(p0, p1),
                     bgr565_LE |-> load_bgr565_LE(p0, p1),
                     bgr565_BE |-> load_bgr565_BE(p0, p1)]>>
    /\ UNCHANGED <<fd_open, mapped, exit_code, sys, envVars, hdrVars, loopVars,
                   passVars, histVars, n_out, samples, pass_env, dirty, sig_out,
                   hw_writes, hw_ticks, detected, visited>>

NextCodec == ApplyCodec
SpecCodec == InitCodec /\ [][NextCodec]_vars

(***************************************************************************)
(* Reading the records: out holds the last two records printed.  Every     *)
(* record carries the printed values, the header and the frame the         *)
(* window held when its pass began (env), whether the hardware left both   *)
(* alone until the record was printed (stable), the locals the pass used   *)
(* (used), the colours it read (samples), whether the hardware wrote       *)
(* another frame while the pass ran (torn) and whether it did so during    *)
(* the pass before (after_torn).                                           *)
(***************************************************************************)
Records == 1..Len(out)
Later   == 2..Len(out)

\* the layout a header in memory declares
Layout(hd) == <<be16(hd.header_len_be), be16(hd.width_be), be16(hd.height_be),
                be16(hd.line_be), hd.pixel_fmt>>
Geometry(hd) == <<hd.width_be, hd.height_be, hd.line_be, hd.pixel_fmt>>

\* the entries of a log in the order they were made
RECURSIVE Flat(_)
Flat(rows) ==
    IF rows = <<>> THEN <<>>
    ELSE Flat(SubSeq(rows, 1, Len(rows) - 1)) \o rows[Len(rows)]

KeysOf(rows) ==
    LET cs == Flat(rows)
    IN  [j \in 1..Len(cs) |-> KeyOf(cs[j][1], cs[j][2], cs[j][3])]
CountIn(ks, k, n) == Cardinality({j \in 1..n : ks[j] = k})
MaxCount(ks) ==
    IF Len(ks) = 0 THEN 0
    ELSE CHOOSE m \in 1..Len(ks) :
           /\ \E j \in 1..Len(ks) : CountIn(ks, ks[j], Len(ks)) = m
           /\ \A j \in 1..Len(ks) : CountIn(ks, ks[j], Len(ks)) <= m
TopKeys(ks) == {ks[j] : j \in {i \in 1..Len(ks) : CountIn(ks, ks[i], Len(ks)) = MaxCount(ks)}}
FirstAt(ks, k) == CHOOSE j \in 1..Len(ks) : ks[j] = k /\ \A i \in 1..(j - 1) : ks[i] # k
\* main has copied the header from the window
HeaderRead == h # NoHeader

\* number of grid points x = px, px+16, ... < w
Steps(p, w) == IF p < w THEN ((w - p - 1) \div kStep) + 1 ELSE 0
GridCount(r) ==
    Steps(Phase(r.frame, kJitterX), r.used[2]) * Steps(Phase(r.frame, kJitterY), r.used[3])

(***************************************************************************)
(* C1: whenever the width, height, stride or format code of the header in  *)
(* memory differs between two consecutive analysed passes, the later pass  *)
(* reports an unchanged-duration of 0, whatever the frame content.         *)
(***************************************************************************)
C1_DiscontinuityResets ==
    \A i \in Later :
        Geometry(out[i].env[1]) # Geometry(out[i - 1].env[1]) => out[i].unchanged = 0

(***************************************************************************)
(* C2: every sampling pass uses the header length, width, height, stride   *)
(* and format code the header in memory holds when the pass begins.        *)
(***************************************************************************)
C2_PassUsesCurrentHeader ==
    \A i \in Records : out[i].used = Layout(out[i].env[1])

(***************************************************************************)
(* C3: if header and frame buffer are identical during two consecutive     *)
(* passes, the second pass computes the same hash, leaves the stored hash  *)
(* unchanged and reports an unchanged-duration not smaller than the first. *)
(***************************************************************************)
C3_IdenticalFramesSameHash ==
    \A i \in Later :
        (out[i].stable /\ out[i - 1].stable /\ out[i].env = out[i - 1].env)
        => /\ out[i].hsh = out[i - 1].hsh
           /\ out[i].stored = out[i - 1].stored
           /\ out[i].unchanged >= out[i - 1].unchanged

(***************************************************************************)
(* C4: for each format RGB16, RGB24, RGBA32 and every frame of one colour  *)
(* C, the pass ends with the dominant key equal to C quantised to 5-6-5    *)
(* and the best count equal to the number of samples of the grid; the      *)
(* record shows the decoded key, and the first record shows unchanged = 0. *)
(***************************************************************************)
C4_UniformFrameMode ==
    \A i \in Records :
        LET r == out[i]
            f == r.env[2]
            c == f.cols[1]
        IN  (/\ r.stable /\ Uniform(f)
             /\ r.used[5] \in FmtBytes /\ f.bpp = HwBpp(r.used[5])
             /\ Layout(r.env[1])[1] = r.used[1] /\ Layout(r.env[1])[4] = r.used[4]
             /\ GridCount(r) > 0)
            => /\ r.mode_key = KeyOf(c[1], c[2], c[3])
               /\ r.mode_count = GridCount(r)
               /\ r.rgb = DecodeKey(KeyOf(c[1], c[2], c[3]))
               /\ (r.frame = 0 => r.unchanged = 0)

(***************************************************************************)
(* C5: when two or more bins end a pass with the same highest count, the   *)
(* dominant key is the one of them whose first sample comes earliest in    *)
(* scan order.                                                             *)
(***************************************************************************)
C5_TieFirstEncountered ==
    \A i \in Records :
        LET ks == KeysOf(out[i].samples)
        IN  Cardinality(TopKeys(ks)) >= 2
            => \A k \in TopKeys(ks) : FirstAt(ks, out[i].mode_key) <= FirstAt(ks, k)

(***************************************************************************)
(* C6: for every header that passes the startup validation and every frame *)
(* index, every byte read by a sampling pass lies inside the mapped window *)
(* [base, base + MAP_LEN).                                                 *)
(***************************************************************************)
C6_ReadsInsideWindow ==
    pc = "sample" => InWindow(SampleAddr(x, y))

(***************************************************************************)
(* C7: once SIGINT or SIGTERM is delivered while main is in the poll loop, *)
(* at most one further record is printed, main does not go back to sleep   *)
(* in the tick wait, and main ends in no other way than by leaving the     *)
(* loop, unmapping the window, closing the descriptor and returning 0.     *)
(***************************************************************************)
C7_SignalStops ==
    sig_out >= 0 =>
        /\ n_out <= sig_out + 1
        /\ pc \in {"sample", "report", "loop_top", "wait", "tick", "cleanup", "exited"}
        /\ pc = "exited" => exit_code = 0 /\ ~mapped /\ ~fd_open
        /\ pc = "wait" => ~(Mem(AttrPtr(0)) = s0 /\ g_run)

(***************************************************************************)
(* C8: in every terminated state of main, whatever the exit path, the      *)
(* window is not mapped any more and the descriptor is not open any more.  *)
(***************************************************************************)
C8_ExitReleases ==
    pc = "exited" => ~mapped /\ ~fd_open /\ sys.munmap = sys.mmap - (IF sys.failed = "mmap" THEN 1 ELSE 0)

\* main returned from the loop after a signal, with records printed
C8_Witness ==
    pc = "exited" /\ exit_code = 0 /\ ~g_run /\ sys.munmap = 1 /\ sys.close = 1 /\ n_out > 0

(***************************************************************************)
(* C9: a first header whose magic is not "ASCL" or whose type is not 1     *)
(* ends main with status 3 before the loop is entered and before any       *)
(* record; a header with both valid never ends main with status 3.         *)
(***************************************************************************)
C9_FormatError ==
    HeaderRead =>
        IF h.magic # MagicASCL \/ h.ty # 1
        THEN /\ pc = "exited" /\ exit_code = 3
             /\ n_out = 0 /\ frame_no = 0 /\ g_epoch = 1
        ELSE exit_code # 3

\* a header with a good magic and a bad type was read, and main has ended
C9_Witness ==
    HeaderRead /\ h.magic = MagicASCL /\ h.ty # 1 /\ pc = "exited"

(***************************************************************************)
(* C10: when open or mmap fails, main ends with a non-zero status after    *)
(* that single attempt, never enters the loop and prints no record.        *)
(***************************************************************************)
C10_AccessError ==
    sys.failed # "none" =>
        /\ pc = "exited" /\ exit_code > 0
        /\ sys.open = 1 /\ sys.mmap <= 1
        /\ ~HeaderRead /\ n_out = 0 /\ frame_no = 0 /\ g_epoch = 1

\* mmap failed after a successful open
C10_Witness ==
    sys.failed = "mmap" /\ sys.open = 1 /\ sys.mmap = 1 /\ pc = "exited"

(***************************************************************************)
(* C11: a pass runs only after the wait loop has read the byte at offset 5 *)
(* with a value different from the one read before; each change so found   *)
(* is followed by exactly one full pass, which visits every point of the   *)
(* grid, and by exactly one record, before the byte is polled again and    *)
(* before main ends; while the byte stays constant no pass runs and no     *)
(* record is printed, so the records never outnumber the changes of the    *)
(* byte made by the hardware.                                              *)
(***************************************************************************)
C11_OnePassPerTick ==
    /\ n_out <= frame_no /\ frame_no <= detected /\ detected <= hw_ticks
    /\ pc \in {"sample", "report"} => frame_no = detected /\ n_out = detected - 1
    /\ pc \in {"loop_top", "wait", "cleanup", "exited", "crashed"} =>
           frame_no = detected /\ n_out = detected
    /\ pc = "report" =>
           Len(Flat(samples)) = Steps(phase_x, width) * Steps(phase_y, height)

(***************************************************************************)
(* C12: when the hardware has replaced the frame by writes that interleave *)
(* with one pass and the new frame B then stays, every pass after the      *)
(* first whole pass over B finds the hash stored by that pass, leaves the  *)
(* stored hash alone and does not move the last-change timestamp.          *)
(***************************************************************************)
C12_TornPassSelfCorrects ==
    \A i \in Later :
        LET p == out[i - 1]
            r == out[i]
        IN  (/\ p.after_torn /\ ~p.torn /\ ~r.torn
             /\ p.env[2] = r.env[2])
            => /\ r.hsh = p.stored
               /\ r.stored = p.stored
               /\ r.time - r.unchanged = p.time - p.unchanged

(***************************************************************************)
(* C13: once the header has passed the two checks, main is out of the poll *)
(* loop only after a signal has cleared g_run, and its status is never     *)
(* that of an error, whatever the hardware has written into the window.    *)
(***************************************************************************)
C13_OnlySignalEndsLoop ==
    (HeaderRead /\ ValidHeader(h)) =>
        /\ pc \in {"cleanup", "exited", "crashed"} => ~g_run
        /\ exit_code \in {-1, 0}

(***************************************************************************)
(* Bit replication of a 5-bit and of a 6-bit field, and the expansions a   *)
(* decoded value went through, field by field.                             *)
(***************************************************************************)
Replicate5(v) == v * 8 + (v \div 4)
Replicate6(v) == v * 4 + (v \div 16)
Replicate565(f) == <<Replicate5(f[1]), Replicate6(f[2]), Replicate5(f[3])>>
Reversed(t) == <<t[3], t[2], t[1]>>

\* the 5-6-5 fields and the channels got from them, for the decode of the
\* key and for each loader, as <<fields, channels in the order of the fields>>
Expansions(r) ==
    LET le == Field565(Pixel16LE(r.p[1], r.p[2]))
        be == Field565(Pixel16BE(r.p[1], r.p[2]))
    IN  {<<Field565(r.key), r.rgb>>,
         <<le, r.rgb565_LE>>, <<be, r.rgb565_BE>>,
         <<le, Reversed(r.bgr565_LE)>>, <<be, Reversed(r.bgr565_BE)>>}

(***************************************************************************)
(* C14: every expansion of a 5-bit or 6-bit field to 8 bits, in the four   *)
(* loaders and in the decode of the winning key, equals bit replication:   *)
(* (v<<3)|(v>>2) for 5 bits, (v<<2)|(v>>4) for 6 bits.                     *)
(***************************************************************************)
C14_ExpansionIsReplication ==
    pc = "codec_done" =>
        \A e \in Expansions(out[1]) : e[2] = Replicate565(e[1])

(***************************************************************************)
(* C15: the expansions map the all-zero field to 0 and the all-one field   *)
(* (31 for 5 bits, 63 for 6 bits) to 255, and every result is in 0..255.   *)
(***************************************************************************)
C15_ExpansionEndpoints ==
    pc = "codec_done" =>
        \A e \in Expansions(out[1]) :
            /\ \A j \in 1..3 : e[2][j] \in 0..255
            /\ \A j \in 1..3 : e[1][j] = 0 => e[2][j] = 0
            /\ \A j \in {1, 3} : e[1][j] = 31 => e[2][j] = 255
            /\ e[1][2] = 63 => e[2][2] = 255

\* the value with every bit set has been decoded and loaded to white
C15_Witness ==
    pc = "codec_done" /\ out[1].key = 65535 /\ out[1].rgb = <<255, 255, 255>>
    /\ out[1].rgb565_BE = <<255, 255, 255>>

(***************************************************************************)
(* C16: the tick wait compares the byte at offset 5 with the value read at *)
(* the tick that began the last pass, so that an advance of the byte made  *)
(* while that pass ran is a change for the wait and begins a further pass: *)
(* whenever main waits after a pass during which the hardware wrote the    *)
(* window, and the byte differs from the value of that tick, the byte      *)
(* differs from s0.                                                        *)
(***************************************************************************)
C16_AdvanceDuringPassSeen ==
    (pc = "wait" /\ g_run /\ frame_no > 0 /\ dirty) =>
        (Mem(AttrPtr(0)) # pass_env[1].pixel_fmt => Mem(AttrPtr(0)) # s0)

(***************************************************************************)
(* C17: the first pass stores its hash and reports 0.  A later pass whose  *)
(* hash equals the stored hash leaves the stored hash and the last-change  *)
(* timestamp as they were and reports now minus that timestamp; one whose  *)
(* hash differs stores its hash, sets the timestamp to now and reports 0.  *)
(***************************************************************************)
C17_FingerprintCompare ==
    /\ \A i \in Records :
          out[i].frame = 0 => out[i].stored = out[i].hsh /\ out[i].unchanged = 0
    /\ \A i \in Later :
          LET p == out[i - 1]
              r == out[i]
          IN  IF r.hsh = p.stored
              THEN /\ r.stored = p.stored
                   /\ r.time - r.unchanged = p.time - p.unchanged
              ELSE /\ r.stored = r.hsh
                   /\ r.unchanged = 0
    /\ n_out > 0 =>
          LET r == out[Len(out)]
          IN  /\ last_hash = r.stored
              /\ last_change_ns = start_ns + r.time - r.unchanged
              /\ ~first

\* a later pass found the stored hash and reported a duration above 0
C17_Witness ==
    \E i \in Later :
        /\ out[i].hsh = out[i - 1].stored
        /\ out[i].unchanged > 0
        /\ out[i].samples # <<>>

(***************************************************************************)
(* The same program on a pass that fills a 16-bit count.  The header below *)
(* passes the two checks of lines 299-307; with phase 0 its grid has 4096  *)
(* columns and 16 rows, all inside the window.  The initial states are the *)
(* ordinary ones and the state of pass 0 on this header, over a uniform    *)
(* red frame, after LongPrefix samples, a signal having arrived when the   *)
(* pass began.                                                             *)
(***************************************************************************)
LongHeader == MkHdr(MagicASCL, 1, RGB24, StartHeaderLen, 65535, 241, 65535)
LongFrame  == [bpp |-> 3, cols |-> <<Red, Red, Red>>]
LongPrefix == 2^16 - 2
LongCols   == Steps(0, be16(LongHeader.width_be))

\* samples of row r taken by then: whole rows, then the row under way
LongRow(r) == IF r <= LongPrefix \div LongCols THEN LongCols ELSE LongPrefix % LongCols

\* the table f over its entries D, written out entry by entry
RECURSIVE Table(_, _)
Table(f, D) ==
    IF D = {} THEN <<>>
    ELSE LET k == CHOOSE e \in D : TRUE
         IN  (k :> f[k]) @@ Table(f, D \ {k})

\* n iterations of the inner loop on colour c, for the hash
RECURSIVE HashRun(_, _, _)
HashRun(hh, c, n) ==
    IF n = 0 THEN hh
    ELSE IF n = 1
         THEN LET r == hash_rgb64(hh, c[1], c[2], c[3])
              IN  <<r[1], r[2], r[3], r[4], r[5], r[6], r[7], r[8]>>
    ELSE LET half == HashRun(hh, c, n \div 2)     \* the first half, worked out
         IN  IF half = Zero64 THEN HashRun(Zero64, c, n - (n \div 2))
             ELSE HashRun(half, c, n - (n \div 2))

\* n iterations of the inner loop on colour c, for the tables and the mode
RECURSIVE TallyRun(_, _, _, _)
TallyRun(T, key, epoch, n) ==
    IF n = 0 THEN T
    ELSE IF n = 1
         THEN LET r == HistSample(T, key, epoch)
              IN  [stamp      |-> Table(r.stamp, DOMAIN r.stamp),
                   count      |-> Table(r.count, DOMAIN r.count),
                   mode_key   |-> r.mode_key,
                   mode_count |-> r.mode_count]
    ELSE LET half == TallyRun(T, key, epoch, n \div 2)
         IN  IF half.mode_count = 0 THEN T
             ELSE TallyRun(half, key, epoch, n - (n \div 2))

InitMidPass ==
    LET T == TallyRun([stamp |-> <<>>, count |-> <<>>, mode_key |-> 0, mode_count |-> 0],
                      KeyOf(Red[1], Red[2], Red[3]), 2, LongPrefix)
    IN  /\ hdr = [LongHeader EXCEPT !.pixel_fmt = NextByte5(RGB24)]
        /\ fb = LongFrame
        /\ clock = 0
        /\ g_run = FALSE
        /\ pc = "sample" /\ fd_open = TRUE /\ mapped = TRUE /\ exit_code = -1
        /\ sys = [open |-> 1, mmap |-> 1, munmap |-> 0, close |-> 0, failed |-> "none"]
        /\ h = LongHeader
        /\ header_len = be16(LongHeader.header_len_be)
        /\ width = be16(LongHeader.width_be)
        /\ height = be16(LongHeader.height_be)
        /\ line = be16(LongHeader.line_be)
        /\ fmt = RGB24
        /\ s0 = RGB24 /\ last_hash = Zero64 /\ first = TRUE
        /\ start_ns = 0 /\ last_change_ns = 0 /\ frame_no = 1
        /\ phase_x = 0 /\ phase_y = 0
        /\ x = kStep * (LongPrefix % LongCols)
        /\ y = kStep * (LongPrefix \div LongCols)
        /\ hsh = HashRun(HashSeed, Red, LongPrefix)
        /\ mode_key = T.mode_key /\ mode_count = T.mode_count
        /\ g_epoch = 2 /\ g_stamp = T.stamp /\ g_count = T.count
        /\ out = <<>> /\ n_out = 0
        /\ samples = [r \in 1..(LongPrefix \div LongCols) + 1 |->
                        [j \in 1..LongRow(r) |-> Red]]
        /\ pass_env = <<[LongHeader EXCEPT !.pixel_fmt = NextByte5(RGB24)], LongFrame>>
        /\ dirty = FALSE
        /\ sig_out = 0 /\ hw_writes = 0 /\ hw_ticks = 1 /\ detected = 1
        /\ visited = [r \in 1..(LongPrefix \div LongCols) + 1 |->
                        [j \in 1..LongRow(r) |-> <<kStep * (j - 1), kStep * (r - 1)>>]]

InitLong == Init \/ InitMidPass
SpecLong == InitLong /\ [][Next]_vars

(***************************************************************************)
(* C18: the epoch advances exactly once per sampling pass, and during a    *)
(* pass the count held for a bin is the number of samples of that pass     *)
(* that mapped to the bin; a bin no sample of the pass mapped to does not  *)
(* carry the current epoch, so counts of earlier passes never contribute.  *)
(***************************************************************************)
C18_EpochCounts ==
    /\ g_epoch = frame_no + 1
    /\ pc \in {"sample", "report"} =>
          LET ks   == KeysOf(samples)
              bins == {ks[j] : j \in 1..Len(ks)}
          IN  /\ \A k \in bins :
                    /\ StampAt(g_stamp, k) = g_epoch
                    /\ CountAt(g_count, k) = CountIn(ks, k, Len(ks))
              /\ \A k \in DOMAIN g_stamp : g_stamp[k] = g_epoch => k \in bins

(***************************************************************************)
(* C19: pass n (n = 0, 1, 2, ...) samples exactly the pairs (x, y) with    *)
(* x = phaseX + 16*i < width and y = phaseY + 16*j < height, row by row,   *)
(* where phaseX = (7*n) mod 16 and phaseY = (11*n) mod 16; both phases lie *)
(* in 0..15, and over any 16 consecutive passes each phase takes every     *)
(* value of 0..15.                                                         *)
(***************************************************************************)
GridRow(px, w, yy) == [i \in 1..Steps(px, w) |-> <<px + 16 * (i - 1), yy>>]
Grid(px, py, w, ht) == [j \in 1..Steps(py, ht) |-> GridRow(px, w, py + 16 * (j - 1))]

C19_GridCoordinates ==
    /\ phase_x \in 0..15 /\ phase_y \in 0..15
    /\ {Phase(n, kJitterX) : n \in frame_no..(frame_no + 15)} = 0..15
    /\ {Phase(n, kJitterY) : n \in frame_no..(frame_no + 15)} = 0..15
    /\ pc \in {"sample", "report"} =>
          LET n    == frame_no - 1
              grid == Flat(Grid((7 * n) % 16, (11 * n) % 16, width, height))
              seen == Flat(visited)
          IN  /\ phase_x = (7 * n) % 16 /\ phase_y = (11 * n) % 16
              /\ Len(seen) <= Len(grid) /\ seen = SubSeq(grid, 1, Len(seen))
              /\ pc = "sample" => Len(seen) < Len(grid) /\ <<x, y>> = grid[Len(seen) + 1]
              /\ pc = "report" => seen = grid

(***************************************************************************)
(* C20: after every sample of a pass, and so at its end, the tracked best  *)
(* count is the largest count held by a bin stamped with the current       *)
(* epoch, and the tracked best key is a bin holding that count.            *)
(***************************************************************************)
C20_RunningMode ==
    (pc \in {"sample", "report"} /\ samples # <<>>) =>
        LET current == {k \in DOMAIN g_stamp : g_stamp[k] = g_epoch}
        IN  /\ mode_key \in current
            /\ CountAt(g_count, mode_key) = mode_count
            /\ \A k \in current : CountAt(g_count, k) <= mode_count

(***************************************************************************)
(* The packed FbHeader, field by field in declaration order, with the size *)
(* of each field in bytes.                                                 *)
(***************************************************************************)
FbFields ==
    << <<"magic", 4>>, <<"ty", 1>>, <<"pixel_fmt", 1>>, <<"header_len_be", 2>>,
       <<"attributes_be", 2>>, <<"width_be", 2>>, <<"height_be", 2>>,
       <<"line_be", 2>>, <<"out_width_be", 2>>, <<"out_height_be", 2>> >>

\* offset of field i: pack(1) leaves no padding
RECURSIVE FieldStart(_)
FieldStart(i) == IF i = 1 THEN 0 ELSE FieldStart(i - 1) + FbFields[i - 1][2]

\* the field holding byte a of the header, "none" behind its end
FieldOf(a) ==
    LET at == {i \in 1..Len(FbFields) :
                  FieldStart(i) <= a /\ a < FieldStart(i) + FbFields[i][2]}
    IN  IF at = {} THEN "none" ELSE FbFields[CHOOSE i \in at : TRUE][1]

\* the fields main takes the frame layout and the decode path from, 309-313
LayoutFields == {"pixel_fmt", "header_len_be", "width_be", "height_be", "line_be"}

(***************************************************************************)
(* C21: the byte main polls for frame ticks is a byte of the attributes    *)
(* field of the header, and not a byte of the pixel format, header length, *)
(* width, height or stride.                                                *)
(***************************************************************************)
C21_TickByteIsAttributes ==
    pc \in {"wait", "tick", "sample", "report"} =>
        /\ FieldOf(AttrPtr(0)) = "attributes_be"
        /\ FieldOf(AttrPtr(0)) \notin LayoutFields

====
